---- MODULE Spec2Model ----
(***************************************************************************)
(* Model of vsaq_server.py, the VSAQ test server: a request handler that   *)
(* rewrites request paths to files of several source directories           *)
(* (translate_path), lazily generates build/all_tests.js                   *)
(* (generate_all_tests_file) and renders a test index page (show_tests).   *)
(*                                                                         *)
(* Strings are sequences of one-character strings, so that startswith,     *)
(* endswith, slicing, the query-string regular expression and cgi.escape   *)
(* are computed character by character as the Python code computes them.   *)
(* Request paths never contain whitespace (the request line is split on    *)
(* whitespace before the handler sees the path).                           *)
(***************************************************************************)
EXTENDS Naturals, Sequences, FiniteSets

(* ------------------------------ words --------------------------------- *)
Slash == <<"/">>
w_build == <<"b","u","i","l","d">>
w_vsaq == <<"v","s","a","q">>
w_static == <<"s","t","a","t","i","c">>
w_questionnaire == <<"q","u","e","s","t","i","o","n","n","a","i","r","e">>
w_javascript == <<"j","a","v","a","s","c","r","i","p","t">>
w_closure == <<"c","l","o","s","u","r","e">>
w_third_party == <<"t","h","i","r","d","_","p","a","r","t","y">>
w_closure_library == <<"c","l","o","s","u","r","e","-","l","i","b","r","a","r","y">>
w_goog == <<"g","o","o","g">>
w_closure_templates_compiler == <<"c","l","o","s","u","r","e","-","t","e","m","p","l","a","t","e","s","-","c","o","m","p","i","l","e","r">>
w_templates == <<"t","e","m","p","l","a","t","e","s">>
w_deps_runfiles_js == <<"d","e","p","s","-","r","u","n","f","i","l","e","s",".","j","s">>
w_all_tests_js == <<"a","l","l","_","t","e","s","t","s",".","j","s">>
w_index_html == <<"i","n","d","e","x",".","h","t","m","l">>
w_tests_html == <<"t","e","s","t","s",".","h","t","m","l">>
w_test_dom_html == <<"t","e","s","t","_","d","o","m",".","h","t","m","l">>
w_secret_txt == <<"s","e","c","r","e","t",".","t","x","t">>
w_nosuch == <<"n","o","s","u","c","h">>
w_dotdot == <<".",".">>
w_dot == <<".">>

(* ------------------------- program constants -------------------------- *)
\* "build/deps-runfiles.js"
DEPS_FILE == w_build \o Slash \o w_deps_runfiles_js

\* "build/all_tests.js"
ALL_JSTESTS_FILE == w_build \o Slash \o w_all_tests_js

\* "build/index.html", the value returned when no mapping entry resolves
INDEX_FILE == w_build \o Slash \o w_index_html

\* The argument of os.walk: "vsaq/"
TEST_ROOT == w_vsaq \o Slash

\* The fnmatch pattern "*test_dom.html", given by what follows the "*"
TEST_PATTERN_SUFFIX == w_test_dom_html

\* The dict literal, in the order its entries are written in the source.
DIRECTORY_MAP ==
  << [prefix   |-> Slash,
      dest_dir |-> w_build \o Slash],
     [prefix   |-> Slash \o w_vsaq \o Slash,
      dest_dir |-> w_vsaq \o Slash],
     [prefix   |-> Slash \o w_vsaq \o Slash \o w_static \o Slash \o w_questionnaire \o Slash,
      dest_dir |-> w_vsaq \o Slash \o w_static \o Slash \o w_questionnaire \o Slash],
     [prefix   |-> Slash \o w_javascript \o Slash \o w_closure \o Slash,
      dest_dir |-> w_third_party \o Slash \o w_closure_library \o Slash \o w_closure
                   \o Slash \o w_goog \o Slash],
     [prefix   |-> Slash \o w_javascript \o Slash \o w_vsaq \o Slash,
      dest_dir |-> w_vsaq \o Slash],
     [prefix   |-> Slash \o w_third_party \o Slash \o w_closure \o Slash,
      dest_dir |-> w_third_party \o Slash \o w_closure_library \o Slash \o w_third_party
                   \o Slash \o w_closure \o Slash],
     [prefix   |-> Slash \o w_third_party \o Slash \o w_closure_templates_compiler \o Slash,
      dest_dir |-> w_third_party \o Slash \o w_closure_templates_compiler \o Slash],
     [prefix   |-> Slash \o w_build \o Slash \o w_templates \o Slash \o w_vsaq \o Slash
                   \o w_static \o Slash \o w_questionnaire \o Slash,
      dest_dir |-> w_build \o Slash \o w_templates \o Slash \o w_vsaq \o Slash
                   \o w_static \o Slash \o w_questionnaire \o Slash] >>

Entries == 1..Len(DIRECTORY_MAP)

(* ------------- iteration order of DIRECTORY_MAP.items() --------------- *)
(* DIRECTORY_MAP is a Python 2 dict: items() yields the entries in the     *)
(* order of the hash table, which the language leaves unspecified.  It is  *)
(* fixed once the class body has run.  The model draws it from a set of    *)
(* permutations: the written order (an insertion-ordered dict), the order  *)
(* of CPython 2.7 on 64 bits (string hash without randomisation, table     *)
(* presized to 16 slots by BUILD_MAP), and rotations of the written order  *)
(* standing for randomised hashes (python -R).                             *)
DeclaredOrder == <<1, 2, 3, 4, 5, 6, 7, 8>>

CPython27Order == <<3, 4, 2, 7, 5, 8, 1, 6>>

Rotate(k) == [i \in Entries |-> ((i + k - 1) % Len(DIRECTORY_MAP)) + 1]

\* how many rotations of the written order are among the iteration orders
MaxRot == 1

ItemsOrders ==
  {DeclaredOrder, CPython27Order} \cup {Rotate(k) : k \in 1..MaxRot}

(* --------------------------- str operations --------------------------- *)
\* str.startswith
StartsWith(s, p) == Len(p) <= Len(s) /\ SubSeq(s, 1, Len(p)) = p

\* str.endswith
EndsWith(s, x) == Len(x) <= Len(s) /\ SubSeq(s, Len(s) - Len(x) + 1, Len(s)) = x

\* the slice s[n:]; empty when n >= len(s)
SliceFrom(s, n) == IF n >= Len(s) THEN <<>> ELSE SubSeq(s, n + 1, Len(s))

\* the slip of a regular expression anchored on the last "?": \?[^?]*$
StripFromLastQuestionMark(path) ==
  LET starts == {i \in 1..Len(path) : path[i] = "?"}
  IN  IF starts = {} THEN path
      ELSE SubSeq(path, 1, (CHOOSE i \in starts : \A j \in starts : i >= j) - 1)

\* the positions at which the pattern \?.*$ matches: those of a "?", as
\* ".*" runs to the end of the string (paths hold no newline)
MatchStarts(path) == {i \in 1..Len(path) : path[i] = "?"}

\* re.sub(r"\?.*$", "", path): the leftmost match is replaced by the empty
\* string, and it leaves nothing behind it to match again
re_sub_parameters(path) ==
  LET starts == MatchStarts(path)
  IN  IF starts = {} THEN path
      ELSE SubSeq(path, 1, (CHOOSE i \in starts : \A j \in starts : i <= j) - 1)

(* -------------------------------- state ------------------------------- *)
VARIABLES
  items_order,   \* order in which DIRECTORY_MAP.items() yields the entries
  files,         \* the files of OtherFiles that are on disk
  vsaq_exists,   \* whether the directory vsaq/ exists
  vsaq_listing,  \* names of the files in vsaq/, in os.listdir order
  writable,      \* whether build/all_tests.js can be opened for writing
  manifest,      \* build/all_tests.js: [exists, tests]
  state,         \* "Idle", or "Respond" when a GET has just been handled
  self_path,     \* self.path of the GET just handled, <<>> if none
  resolved,      \* what translate_path returned for it, <<>> if not returned
  response       \* what the client received

vars == <<items_order, files, vsaq_exists, vsaq_listing, writable, manifest,
          state, self_path, resolved, response>>

(* --------------------------- the filesystem --------------------------- *)
\* names a file of vsaq/ may have
VsaqNames ==
  { <<"a","_">> \o w_test_dom_html,
    <<"<","&",">">> \o w_test_dom_html,
    w_deps_runfiles_js }

\* files that may exist outside vsaq/
OtherFiles ==
  { INDEX_FILE,
    w_build \o Slash \o w_vsaq \o Slash \o <<"a","_">> \o w_test_dom_html,
    w_secret_txt }

\* files the build step has made before the server starts ("./do.sh
\* testserver generates the file")
BuiltFiles == {DEPS_FILE}

\* how many files vsaq/ holds at most
MaxListing == 2

Range(s) == {s[i] : i \in 1..Len(s)}

\* every regular file on disk, named by its path relative to the
\* working directory of the server
ExistingFiles ==
  files \cup BuiltFiles
    \cup {TEST_ROOT \o n : n \in Range(vsaq_listing)}
    \cup (IF manifest.exists THEN {ALL_JSTESTS_FILE} ELSE {})

RECURSIVE Split(_, _)
\* the segments of a path between "/" characters; cur is the open segment
Split(s, cur) ==
  IF s = <<>> THEN <<cur>>
  ELSE IF Head(s) = "/" THEN <<cur>> \o Split(Tail(s), <<>>)
  ELSE Split(Tail(s), Append(cur, Head(s)))

RECURSIVE Join(_)
Join(segs) ==
  IF segs = <<>> THEN <<>>
  ELSE IF Len(segs) = 1 THEN segs[1]
  ELSE segs[1] \o Slash \o Join(Tail(segs))

\* a directory (given by its segments) exists on a disk holding the files
\* disk: the working directory and build/ always do, vsaq/ according to
\* vsaq_exists, any other one when a file lies below it
DirExists(segs, disk) ==
  \/ segs = <<>>
  \/ segs = <<w_build>>
  \/ segs = <<w_vsaq>> /\ vsaq_exists
  \/ \E f \in disk :
        LET fs == Split(f, <<>>)
        IN  Len(fs) > Len(segs) /\ SubSeq(fs, 1, Len(segs)) = segs

Outside == << <<"^">> >>

RECURSIVE Walk(_, _, _)
\* how the kernel resolves a relative path: "" and "." stay, ".." leaves an
\* existing directory for its parent.  Yields the segments of the file
\* named, or Outside when a component is missing or the path leaves the
\* working directory.
Walk(segs, stack, disk) ==
  IF segs = <<>> THEN stack
  ELSE LET h == Head(segs)
       IN  IF h = <<>> \/ h = w_dot THEN Walk(Tail(segs), stack, disk)
           ELSE IF h = w_dotdot
             THEN IF stack = <<>> \/ ~DirExists(stack, disk) THEN Outside
                  ELSE Walk(Tail(segs), SubSeq(stack, 1, Len(stack) - 1), disk)
           ELSE Walk(Tail(segs), Append(stack, h), disk)

\* no segment of p is empty or starts with ".": the kernel resolves such a
\* path segment by segment to the file of that very name
Plain(p) ==
  /\ p # <<>>
  /\ p[1] \notin {"/", "."}
  /\ p[Len(p)] # "/"
  /\ \A i \in 1..(Len(p) - 1) : p[i] = "/" => p[i + 1] \notin {"/", "."}

\* the file a path names on the disk, as a path relative to the working
\* directory without "." and ".." segments
Canonical(p, disk) ==
  IF Plain(p) THEN p ELSE Join(Walk(Split(p, <<>>), <<>>, disk))

\* p names a regular file of the disk; a path whose last segment is empty,
\* "." or ".." names a directory at best
IsFileOn(p, disk) ==
  IF Plain(p) THEN p \in disk
  ELSE LET segs == Split(p, <<>>)
       IN  /\ segs[Len(segs)] \notin {<<>>, w_dot, w_dotdot}
           /\ Canonical(p, disk) \in disk

\* the slip of testing nothing: every candidate is taken to be a file
isfile_always(p) == TRUE

\* os.path.isfile
isfile(p) == IsFileOn(p, ExistingFiles)

\* os.path.exists, applied by the program to ALL_JSTESTS_FILE only
exists(p) == p \in ExistingFiles

(* ---------------------------- test discovery -------------------------- *)
\* os.walk("vsaq/"): one directory, its files in os.listdir order.  An
\* error of os.listdir (the directory is missing) is ignored by os.walk,
\* which then yields nothing.
os_walk == IF vsaq_exists THEN vsaq_listing ELSE <<>>

\* fnmatch against "*test_dom.html"
fnmatch(name) == EndsWith(name, TEST_PATTERN_SUFFIX)

\* get_test_files: os.path.join(root, f) for every matching name, in the
\* order of the walk
get_test_files ==
  LET matched == SelectSeq(os_walk, fnmatch)
  IN  [i \in 1..Len(matched) |-> TEST_ROOT \o matched[i]]

(* ------------------------- manifest generation ------------------------ *)
\* the slip of regenerating whenever the file can be written
generate_always ==
  IF ~writable
    THEN [manifest |-> manifest, raised |-> TRUE]
    ELSE [manifest |-> [exists |-> TRUE, tests |-> get_test_files],
          raised |-> FALSE]

\* the slip of swallowing the IOError of open()
generate_swallowing_errors ==
  IF exists(ALL_JSTESTS_FILE) \/ ~writable
    THEN [manifest |-> manifest, raised |-> FALSE]
    ELSE [manifest |-> [exists |-> TRUE, tests |-> get_test_files],
          raised |-> FALSE]

\* generate_all_tests_file: nothing when the file exists; otherwise open()
\* raises IOError when the file cannot be written, else the file holds
\* "var _allTests=" + repr(get_test_files()) + ";" (given by the list)
generate_all_tests_file ==
  IF exists(ALL_JSTESTS_FILE)
    THEN [manifest |-> manifest, raised |-> FALSE]
  ELSE IF ~writable
    THEN [manifest |-> manifest, raised |-> TRUE]
  ELSE [manifest |-> [exists |-> TRUE, tests |-> get_test_files],
        raised |-> FALSE]

(* ---------------------------- translate_path -------------------------- *)
\* the candidate of a mapping entry: dest_dir + path[len(prefix):]
Candidate(e, path) ==
  DIRECTORY_MAP[e].dest_dir \o SliceFrom(path, Len(DIRECTORY_MAP[e].prefix))

\* the test of the loop body
Resolves(e, path) ==
  StartsWith(path, DIRECTORY_MAP[e].prefix) /\ isfile(Candidate(e, path))

RECURSIVE map_loop_bare_index(_, _)
\* the slip of a fallback without its directory
map_loop_bare_index(path, k) ==
  IF k > Len(items_order) THEN w_index_html
  ELSE IF Resolves(items_order[k], path) THEN Candidate(items_order[k], path)
  ELSE map_loop_bare_index(path, k + 1)

RECURSIVE map_loop(_, _)
\* the for loop over DIRECTORY_MAP.items() from its k-th entry on, and
\* the return that follows it
map_loop(path, k) ==
  IF k > Len(items_order) THEN INDEX_FILE
  ELSE IF Resolves(items_order[k], path) THEN Candidate(items_order[k], path)
  ELSE map_loop(path, k + 1)

\* the slip of comparing the whole path instead of its end
is_deps_request_whole_path(path) == path = Slash \o w_deps_runfiles_js

\* path.endswith("deps-runfiles.js")
is_deps_request(path) == EndsWith(path, w_deps_runfiles_js)

\* path == "/" + ALL_JSTESTS_FILE
is_manifest_request(path) == path = Slash \o ALL_JSTESTS_FILE

\* translate_path: the path returned (ret), the manifest file it leaves
\* behind, and whether it raised instead of returning
translate_path(p) ==
  LET stripped == re_sub_parameters(p)
  IN  IF is_deps_request(stripped)
        THEN [ret |-> DEPS_FILE, manifest |-> manifest, raised |-> FALSE]
      ELSE IF is_manifest_request(stripped)
        THEN LET g == generate_all_tests_file
             IN  [ret |-> IF g.raised THEN <<>> ELSE ALL_JSTESTS_FILE,
                  manifest |-> g.manifest, raised |-> g.raised]
      ELSE [ret |-> map_loop(stripped, 1), manifest |-> manifest,
            raised |-> FALSE]

(* ------------------------------ show_tests ---------------------------- *)
RECURSIVE replace(_, _, _)
\* str.replace of the one-character string old by new
replace(s, old, new) ==
  IF s = <<>> THEN <<>>
  ELSE (IF Head(s) = old THEN new ELSE <<Head(s)>>) \o replace(Tail(s), old, new)

\* the slip of forgetting the "<" replacement
cgi_escape_without_lt(s) ==
  replace(replace(s, "&", <<"&","a","m","p",";">>), ">", <<"&","g","t",";">>)

\* cgi.escape(s) with quote unset: "&" first, then "<", then ">"
cgi_escape(s) ==
  replace(replace(replace(s, "&", <<"&","a","m","p",";">>),
                  "<", <<"&","l","t",";">>),
          ">", <<"&","g","t",";">>)

NoResponse ==
  [kind |-> "none", status |-> 0, ctype |-> "", items |-> <<>>,
   file |-> <<>>, data |-> <<>>]

\* the handler raised: the socket server logs the error and closes the
\* connection, the client receives no response
UnhandledError ==
  [kind |-> "unhandled_error", status |-> 0, ctype |-> "", items |-> <<>>,
   file |-> <<>>, data |-> <<>>]

\* show_tests: status 200, Content-type text/html, the fixed heading and
\* all_tests.html link (the same in every response, left out), and one
\* <li><a href="/f">escape(f)</a> item for every test file
show_tests ==
  LET test_files == get_test_files
  IN  [kind |-> "index", status |-> 200, ctype |-> "text/html",
       items |-> [i \in 1..Len(test_files) |->
                    [href |-> Slash \o test_files[i],
                     text |-> cgi_escape(test_files[i])]],
       file |-> <<>>, data |-> <<>>]

(* -------------------------------- do_GET ------------------------------ *)
\* SimpleHTTPRequestHandler.do_GET after translate_path has returned ret and
\* left the manifest file m: the content of the file with status 200, or
\* the 404 of send_head when open() fails
send_head(ret, m) ==
  LET disk == files \cup BuiltFiles \cup {TEST_ROOT \o n : n \in Range(vsaq_listing)}
                    \cup (IF m.exists THEN {ALL_JSTESTS_FILE} ELSE {})
      file == Canonical(ret, disk)
  IN  IF IsFileOn(ret, disk)
        THEN [kind |-> "file", status |-> 200, ctype |-> "guessed", items |-> <<>>,
              file |-> file,
              data |-> IF file = ALL_JSTESTS_FILE THEN m.tests ELSE <<>>]
        ELSE [kind |-> "not_found", status |-> 404, ctype |-> "text/html",
              items |-> <<>>, file |-> <<>>, data |-> <<>>]

\* the static-file branch of do_GET
static_GET(p) ==
  LET t == translate_path(p)
  IN  IF t.raised
        THEN [resolved |-> <<>>, manifest |-> t.manifest,
              response |-> UnhandledError]
        ELSE [resolved |-> t.ret, manifest |-> t.manifest,
              response |-> send_head(t.ret, t.manifest)]

TestsHtml == Slash \o w_tests_html

TestsHtmlSlash == Slash \o w_tests_html \o Slash

\* the slip of dispatching one alias only
do_GET_one_alias(p) ==
  IF p = TestsHtml
    THEN [resolved |-> <<>>, manifest |-> manifest, response |-> show_tests]
    ELSE static_GET(p)

\* do_GET: the value of translate_path (<<>> when it was not called or
\* raised), the manifest file afterwards, and the response
do_GET(p) ==
  IF p = TestsHtml \/ p = TestsHtmlSlash
    THEN [resolved |-> <<>>, manifest |-> manifest, response |-> show_tests]
    ELSE static_GET(p)

(* ----------------------------- request paths -------------------------- *)
a_test == <<"a","_">> \o w_test_dom_html

marked_test == <<"<","&",">">> \o w_test_dom_html

Query == <<"?","v","=","1">>

RequestPaths ==
  { TestsHtml,
    TestsHtmlSlash,
    Slash \o ALL_JSTESTS_FILE,
    Slash \o ALL_JSTESTS_FILE \o Query,
    Slash \o ALL_JSTESTS_FILE \o <<"?">> \o w_deps_runfiles_js,
    Slash \o w_all_tests_js,
    Slash \o w_deps_runfiles_js,
    Slash \o w_vsaq \o Slash \o w_deps_runfiles_js,
    Slash \o w_nosuch \o Slash \o <<"x">> \o w_deps_runfiles_js \o Query,
    Slash \o w_vsaq \o Slash \o a_test,
    Slash \o w_vsaq \o Slash \o a_test \o Query,
    Slash \o w_vsaq \o Slash \o a_test \o Query \o Query,
    Slash \o w_vsaq \o Slash \o marked_test,
    Slash \o w_javascript \o Slash \o w_vsaq \o Slash \o a_test,
    Slash \o w_dotdot \o Slash \o w_secret_txt,
    Slash \o w_vsaq \o Slash \o w_dotdot \o Slash \o w_secret_txt,
    Slash \o w_index_html,
    Slash \o w_nosuch }

(* -------------------------------- actions ----------------------------- *)
Init ==
  /\ items_order \in ItemsOrders
  /\ files = {INDEX_FILE}
  /\ vsaq_exists = TRUE
  /\ vsaq_listing = <<a_test>>
  /\ writable = TRUE
  /\ manifest = [exists |-> FALSE, tests |-> <<>>]
  /\ state = "Idle"
  /\ self_path = <<>>
  /\ resolved = <<>>
  /\ response = NoResponse

\* the server handles GET p
Get(p) ==
  /\ state = "Idle"
  /\ \E r \in {do_GET(p)} :
       /\ state' = "Respond"
       /\ self_path' = p
       /\ resolved' = r.resolved
       /\ manifest' = r.manifest
       /\ response' = r.response
  /\ UNCHANGED <<items_order, files, vsaq_exists, vsaq_listing, writable>>

\* the response is sent and the server waits for the next request
Finish ==
  /\ state = "Respond"
  /\ state' = "Idle"
  /\ self_path' = <<>>
  /\ resolved' = <<>>
  /\ response' = NoResponse
  /\ UNCHANGED <<items_order, files, vsaq_exists, vsaq_listing, writable, manifest>>

\* what a change of the disk made from outside the server leaves alone;
\* the server handles one request at a time and is idle meanwhile
Outside_step ==
  /\ state = "Idle"
  /\ UNCHANGED <<items_order, manifest, state, self_path, resolved, response>>

CreateFile(f) ==
  /\ f \notin files
  /\ files' = files \cup {f}
  /\ Outside_step
  /\ UNCHANGED <<vsaq_exists, vsaq_listing, writable>>

DeleteFile(f) ==
  /\ f \in files
  /\ files' = files \ {f}
  /\ Outside_step
  /\ UNCHANGED <<vsaq_exists, vsaq_listing, writable>>

\* a file appears in vsaq/, at any place of the directory listing
AddVsaqFile(n, k) ==
  /\ vsaq_exists
  /\ n \notin Range(vsaq_listing)
  /\ Len(vsaq_listing) < MaxListing
  /\ k \in 0..Len(vsaq_listing)
  /\ vsaq_listing' = SubSeq(vsaq_listing, 1, k) \o <<n>>
                       \o SubSeq(vsaq_listing, k + 1, Len(vsaq_listing))
  /\ Outside_step
  /\ UNCHANGED <<files, vsaq_exists, writable>>

RemoveVsaqFile(n) ==
  /\ n \in Range(vsaq_listing)
  /\ vsaq_listing' = SelectSeq(vsaq_listing, LAMBDA x : x # n)
  /\ Outside_step
  /\ UNCHANGED <<files, vsaq_exists, writable>>

\* vsaq/ is removed with everything in it
RemoveVsaq ==
  /\ vsaq_exists
  /\ vsaq_exists' = FALSE
  /\ vsaq_listing' = <<>>
  /\ Outside_step
  /\ UNCHANGED <<files, writable>>

CreateVsaq ==
  /\ ~vsaq_exists
  /\ vsaq_exists' = TRUE
  /\ vsaq_listing' = <<>>
  /\ Outside_step
  /\ UNCHANGED <<files, writable>>

\* permissions of build/ change
SetWritable ==
  /\ writable' = ~writable
  /\ Outside_step
  /\ UNCHANGED <<files, vsaq_exists, vsaq_listing>>

Next ==
  \/ \E p \in RequestPaths : Get(p)
  \/ Finish
  \/ \E f \in OtherFiles : CreateFile(f)
  \/ \E f \in OtherFiles : DeleteFile(f)
  \/ \E n \in VsaqNames, k \in 0..MaxListing : AddVsaqFile(n, k)
  \/ \E n \in VsaqNames : RemoveVsaqFile(n)
  \/ RemoveVsaq
  \/ CreateVsaq
  \/ SetWritable

Spec == Init /\ [][Next]_vars

TypeOK ==
  /\ items_order \in ItemsOrders
  /\ files \subseteq OtherFiles
  /\ vsaq_exists \in BOOLEAN
  /\ Range(vsaq_listing) \subseteq VsaqNames
  /\ ~vsaq_exists => vsaq_listing = <<>>
  /\ writable \in BOOLEAN
  /\ state \in {"Idle", "Respond"}
  /\ state = "Idle" => self_path = <<>> /\ resolved = <<>> /\ response = NoResponse

(* ===================== properties of the program ====================== *)
\* a GET has just been handled
Handled == state = "Respond"

\* the request path with everything from its first "?" on removed
BeforeQuery(p) ==
  IF \A i \in 1..Len(p) : p[i] # "?" THEN p
  ELSE LET n == CHOOSE n \in 0..(Len(p) - 1) :
                  p[n + 1] = "?" /\ \A j \in 1..n : p[j] # "?"
       IN  SubSeq(p, 1, n)

\* the last characters of s are those of x
HasSuffix(s, x) ==
  /\ Len(x) <= Len(s)
  /\ \A i \in 1..Len(x) : s[Len(s) - Len(x) + i] = x[i]

DepsPath(p) == HasSuffix(BeforeQuery(p), w_deps_runfiles_js)

ManifestRoute(p) == BeforeQuery(p) = Slash \o w_build \o Slash \o w_all_tests_js

\* entry e has a prefix the query-stripped path q starts with
Matches(e, q) == StartsWith(q, DIRECTORY_MAP[e].prefix)

\* directory + remainder of the query-stripped path q for entry e
Mapped(e, q) ==
  DIRECTORY_MAP[e].dest_dir \o SliceFrom(q, Len(DIRECTORY_MAP[e].prefix))

OnDisk(f) == IsFileOn(f, ExistingFiles)

\* the entries with a matching prefix and an existing mapped file for the
\* query-stripped path q
Serving(q) == {e \in Entries : Matches(e, q) /\ OnDisk(Mapped(e, q))}

\* the place of entry e in the iteration order
Place(e) == CHOOSE k \in 1..Len(items_order) : items_order[k] = e

FileResponse(f) ==
  [kind |-> "file", status |-> 200, ctype |-> "guessed", items |-> <<>>,
   file |-> f, data |-> <<>>]

NotFound ==
  [kind |-> "not_found", status |-> 404, ctype |-> "text/html",
   items |-> <<>>, file |-> <<>>, data |-> <<>>]

(* -------------------------------- C1 ---------------------------------- *)
\* C1 as stated: for an entry whose prefix the request path starts with,
\* translate_path returns directory + remainder if and only if that file
\* exists.
C1_MappedIffExists ==
  (Handled /\ resolved # <<>>) =>
    \A e \in Entries :
      StartsWith(self_path, DIRECTORY_MAP[e].prefix) =>
        LET f == DIRECTORY_MAP[e].dest_dir
                   \o SliceFrom(self_path, Len(DIRECTORY_MAP[e].prefix))
        IN  (resolved = f) <=> OnDisk(f)

\* C1 amended: for a query-stripped path that is neither a deps-runfiles.js
\* path nor the manifest route, translate_path returns directory + remainder
\* of an entry when that file exists and no entry iterated earlier has a
\* matching prefix and an existing file; it returns directory + remainder
\* only if the file exists or is the fallback build/index.html; and the
\* result is always the mapped file of the first serving entry in iteration
\* order, or build/index.html when no entry serves the path.
C1_MappedWhenFirstServing ==
  (Handled /\ resolved # <<>> /\ ~DepsPath(self_path) /\ ~ManifestRoute(self_path)) =>
    LET q == BeforeQuery(self_path)
        serving == Serving(q)
    IN  /\ \A e \in Entries :
             Matches(e, q) =>
               /\ (e \in serving /\ \A d \in serving : Place(e) <= Place(d))
                    => resolved = Mapped(e, q)
               /\ resolved = Mapped(e, q)
                    => (e \in serving \/ resolved = INDEX_FILE)
        /\ \/ resolved = INDEX_FILE /\ serving = {}
           \/ \E e \in serving :
                /\ resolved = Mapped(e, q)
                /\ \A d \in serving : Place(e) <= Place(d)

\* a request under /vsaq/ was resolved to the file of vsaq/ although the
\* "/" entry matches too (its file build/vsaq/... is missing)
C1_Witness ==
  /\ Handled
  /\ self_path = Slash \o w_vsaq \o Slash \o a_test
  /\ resolved = w_vsaq \o Slash \o a_test
  /\ ~OnDisk(w_build \o Slash \o w_vsaq \o Slash \o a_test)

(* -------------------------------- C2 ---------------------------------- *)
\* C2: once build/all_tests.js exists no step changes it, whatever happens
\* to vsaq/; the first request of the route writes the test files found
\* at that moment, and every request of the route made while the file
\* exists resolves to it and is answered with the content it already had.
C2_ManifestNeverRegenerated ==
  [][ /\ manifest.exists => manifest' = manifest
      /\ (state = "Idle" /\ state' = "Respond" /\ ManifestRoute(self_path')) =>
           /\ (manifest.exists =>
                 /\ resolved' = ALL_JSTESTS_FILE
                 /\ response'.status = 200
                 /\ response'.file = ALL_JSTESTS_FILE
                 /\ response'.data = manifest.tests)
           /\ (~manifest.exists /\ writable =>
                 /\ manifest' = [exists |-> TRUE, tests |-> get_test_files]
                 /\ resolved' = ALL_JSTESTS_FILE
                 /\ response'.data = get_test_files)
    ]_vars

\* the route was answered with a list that no longer is the list of test
\* files on disk
C2_Witness ==
  /\ Handled
  /\ ManifestRoute(self_path)
  /\ manifest.exists
  /\ response.data = manifest.tests
  /\ response.data # get_test_files
  /\ Len(response.data) > 0

(* -------------------------------- C3 ---------------------------------- *)
\* C3: on every disk (every disk is the disk of an idle server),
\* translate_path returns the same path, and leaves the same manifest file,
\* for a path with a query string and for that path cut before its first
\* "?".
C3_QueryStringIgnored ==
  state = "Idle" =>
    \A p \in RequestPaths :
      "?" \in Range(p) => translate_path(p) = translate_path(BeforeQuery(p))

\* a request with two "?" was resolved to the mapped file
C3_Witness ==
  /\ Handled
  /\ self_path = Slash \o w_vsaq \o Slash \o a_test \o Query \o Query
  /\ resolved = w_vsaq \o Slash \o a_test

(* -------------------------------- C4 ---------------------------------- *)
\* C4: a path whose query-stripped form ends with deps-runfiles.js is
\* translated to build/deps-runfiles.js on every disk, without touching
\* the manifest file.
C4_DepsOverride ==
  /\ state = "Idle" =>
       \A p \in RequestPaths :
         DepsPath(p) =>
           translate_path(p) =
             [ret |-> DEPS_FILE, manifest |-> manifest, raised |-> FALSE]
  /\ (Handled /\ DepsPath(self_path)) => resolved = DEPS_FILE

\* /vsaq/deps-runfiles.js was translated to build/deps-runfiles.js while
\* vsaq/deps-runfiles.js, the file of the "/vsaq/" entry, exists and no
\* manifest has been generated
C4_Witness ==
  /\ Handled
  /\ self_path = Slash \o w_vsaq \o Slash \o w_deps_runfiles_js
  /\ resolved = DEPS_FILE
  /\ 2 \in Serving(BeforeQuery(self_path))
  /\ ~manifest.exists

(* -------------------------------- C5 ---------------------------------- *)
\* C5 as stated: when several entries serve the path, translate_path
\* returns the mapped file of the first of them in the order in which the
\* entries are written in DIRECTORY_MAP.
C5_FirstDeclaredEntryWins ==
  (Handled /\ resolved # <<>> /\ ~DepsPath(self_path) /\ ~ManifestRoute(self_path)) =>
    LET q == BeforeQuery(self_path)
        serving == Serving(q)
    IN  \A e \in serving :
          (\A d \in serving : e <= d) => resolved = Mapped(e, q)

(* -------------------------------- C6 ---------------------------------- *)
\* no entry serves the path, which is neither a deps-runfiles.js path nor
\* the manifest route
Unresolved(p) ==
  /\ ~DepsPath(p)
  /\ ~ManifestRoute(p)
  /\ Serving(BeforeQuery(p)) = {}

FallbackResponse ==
  IF OnDisk(INDEX_FILE) THEN FileResponse(INDEX_FILE) ELSE NotFound

\* C6: translate_path returns build/index.html, without raising, for every
\* unresolved path; when do_GET has called it for such a path (it does for
\* every path but /tests.html and /tests.html/, which the test index page
\* answers), the response is the content of build/index.html, or 404 when
\* that file is missing.
C6_UnresolvedStaticGetsFallback ==
  /\ state = "Idle" =>
       \A p \in RequestPaths :
         Unresolved(p) =>
           translate_path(p) =
             [ret |-> INDEX_FILE, manifest |-> manifest, raised |-> FALSE]
  /\ (Handled /\ Unresolved(self_path) /\ self_path \notin {TestsHtml, TestsHtmlSlash})
       => (resolved = INDEX_FILE /\ response = FallbackResponse)

\* /nosuch fell back to build/index.html, which is missing: 404
C6_Witness ==
  /\ Handled
  /\ self_path = Slash \o w_nosuch
  /\ resolved = INDEX_FILE
  /\ response.status = 404

(* -------------------------------- C7 ---------------------------------- *)
\* the test files on disk, in the order of the directory listing
Discovered ==
  LET l == SelectSeq(vsaq_listing, LAMBDA n : HasSuffix(n, w_test_dom_html))
  IN  [i \in 1..Len(l) |-> w_vsaq \o Slash \o l[i]]

\* C7: on every disk (every disk is the disk of an idle server) GET /tests.html and GET /tests.html/ have the same
\* outcome: the index page (translate_path is not called), status 200,
\* Content-type text/html, one item per discovered test file in the order
\* of discovery.
C7_IndexAliasesAgree ==
  state = "Idle" =>
  /\ do_GET(TestsHtml) = do_GET(TestsHtmlSlash)
  /\ \A p \in {TestsHtml, TestsHtmlSlash} :
       /\ do_GET(p).resolved = <<>>
       /\ do_GET(p).manifest = manifest
       /\ do_GET(p).response.kind = "index"
       /\ do_GET(p).response.status = 200
       /\ do_GET(p).response.ctype = "text/html"
       /\ Len(do_GET(p).response.items) = Len(Discovered)
       /\ \A i \in 1..Len(Discovered) :
            do_GET(p).response.items[i].href = Slash \o Discovered[i]

\* /tests.html/ was answered with an index page of two test files
C7_Witness ==
  /\ Handled
  /\ self_path = TestsHtmlSlash
  /\ response.kind = "index"
  /\ Len(response.items) = 2

(* -------------------------------- C8 ---------------------------------- *)
\* text holds no "<", no ">", and no "&" other than the first character of
\* &amp; &lt; or &gt;
Escaped(text) ==
  /\ "<" \notin Range(text)
  /\ ">" \notin Range(text)
  /\ \A i \in 1..Len(text) :
       text[i] = "&" =>
         \E ent \in { <<"&","a","m","p",";">>, <<"&","l","t",";">>,
                      <<"&","g","t",";">> } :
           SubSeq(text, i, i + Len(ent) - 1) = ent

\* C8: in the index page, the link text of every test file whose path
\* holds "<", ">" or "&" has none of these characters unescaped.
C8_LinkTextEscaped ==
  (Handled /\ response.kind = "index") =>
    \A i \in 1..Len(response.items) :
      Range(response.items[i].href) \cap {"<", ">", "&"} # {}
        => Escaped(response.items[i].text)

\* the index page lists the file <&>test_dom.html
C8_Witness ==
  /\ Handled
  /\ response.kind = "index"
  /\ \E i \in 1..Len(response.items) :
       /\ response.items[i].href = Slash \o w_vsaq \o Slash \o marked_test
       /\ response.items[i].text =
            w_vsaq \o Slash
              \o <<"&","l","t",";","&","a","m","p",";","&","g","t",";">>
              \o w_test_dom_html

(* -------------------------------- C9 ---------------------------------- *)
\* a request that walks vsaq/: the index page, or the manifest route while
\* the manifest file is missing
NeedsWalk(p, m) ==
  \/ p \in {TestsHtml, TestsHtmlSlash}
  \/ ManifestRoute(p) /\ ~m.exists

C10_ResolvedUnderSourceRoot ==
  (Handled /\ resolved # <<>>) =>
    \/ resolved \in {DEPS_FILE, ALL_JSTESTS_FILE, INDEX_FILE}
    \/ \E e \in Entries :
         StartsWith(Canonical(resolved, ExistingFiles), DIRECTORY_MAP[e].dest_dir)

====
